---- MODULE Spec2Model ----
(***************************************************************************)
(* Model of the dependency analyzer of Repo-lyzer                          *)
(* (internal/analyzer/dependencies.go): the manifest detector, the five    *)
(* format parsers and the aggregator AnalyzeDependencies.                  *)
(*                                                                         *)
(* Texts are TLA+ strings; the Go string functions are modelled character  *)
(* by character with Len, SubSeq and \o.                                   *)
(***************************************************************************)
EXTENDS Integers, Sequences, FiniteSets, TLC

(***************************************************************************)
(* Go's strings package, as far as the analyzer uses it.                   *)
(***************************************************************************)

\* The printable ASCII characters in byte order: 0x20 .. 0x5F and 0x61 .. 0x7E
\* (0x60, the backquote, cannot be written in a string of this language and
\* occurs in no text of the model).
AsciiLow == " !\"#$%&'()*+,-./0123456789:;<=>?@ABCDEFGHIJKLMNOPQRSTUVWXYZ[\\]^_"
AsciiHigh == "abcdefghijklmnopqrstuvwxyz{|}~"

Char(s, i) == SubSeq(s, i, i)

\* The byte value of each character of a text.
OrdTable ==
  [c \in {"\t", "\n", "\r"} |-> IF c = "\t" THEN 9 ELSE IF c = "\n" THEN 10 ELSE 13]
  @@ [c \in {Char(AsciiLow, i) : i \in 1..Len(AsciiLow)} |->
        31 + (CHOOSE i \in 1..Len(AsciiLow) : Char(AsciiLow, i) = c)]
  @@ [c \in {Char(AsciiHigh, i) : i \in 1..Len(AsciiHigh)} |->
        96 + (CHOOSE i \in 1..Len(AsciiHigh) : Char(AsciiHigh, i) = c)]

Ord(c) == OrdTable[c]

\* The one-character string of each byte value ("?" for a byte no text holds).
ChrTable ==
  [n \in 0..255 |->
     IF n = 9 THEN "\t"
     ELSE IF n = 10 THEN "\n"
     ELSE IF n = 13 THEN "\r"
     ELSE IF n >= 32 /\ n <= 95 THEN Char(AsciiLow, n - 31)
     ELSE IF n >= 97 /\ n <= 126 THEN Char(AsciiHigh, n - 96)
     ELSE "?"]

Chr(n) == ChrTable[n]

\* unicode.IsSpace on the characters a text can hold.
IsSpace(c) == c \in {" ", "\t", "\n", "\r"}

\* a < b on Go strings: bytewise lexicographic order.
RECURSIVE StrLess(_, _)
StrLess(a, b) ==
  IF Len(b) = 0 THEN FALSE
  ELSE IF Len(a) = 0 THEN TRUE
  ELSE IF Char(a, 1) = Char(b, 1) THEN StrLess(Tail(a), Tail(b))
  ELSE Ord(Char(a, 1)) < Ord(Char(b, 1))

HasPrefix(s, prefix) ==
  Len(s) >= Len(prefix) /\ SubSeq(s, 1, Len(prefix)) = prefix

Contains(s, substr) ==
  \E i \in 1..(Len(s) - Len(substr) + 1) : SubSeq(s, i, i + Len(substr) - 1) = substr

\* The number of leading characters of s that lie in set.
LeadingRun(s, set) ==
  LET out == {i \in 1..Len(s) : Char(s, i) \notin set}
  IN IF out = {} THEN Len(s)
     ELSE (CHOOSE i \in out : \A j \in out : i <= j) - 1

\* The number of leading characters of s that lie outside set.
LeadingRunExcept(s, set) ==
  LET hit == {i \in 1..Len(s) : Char(s, i) \in set}
  IN IF hit = {} THEN Len(s)
     ELSE (CHOOSE i \in hit : \A j \in hit : i <= j) - 1

\* strings.Index for a one-character separator, from 1; 0 when absent.
IndexOf(s, c) ==
  LET n == LeadingRunExcept(s, {c}) IN IF n = Len(s) THEN 0 ELSE n + 1

\* strings.Trim(s, cutset) with the cutset given as a set of characters.
TrimSet(s, cutset) ==
  LET keep == {i \in 1..Len(s) : Char(s, i) \notin cutset}
  IN IF keep = {} THEN ""
     ELSE LET lo == CHOOSE i \in keep : \A j \in keep : i <= j
              hi == CHOOSE i \in keep : \A j \in keep : j <= i
          IN SubSeq(s, lo, hi)

TrimSpace(s) == TrimSet(s, {" ", "\t", "\n", "\r"})

\* strings.Split(s, sep) for a one-character sep: never empty, Split("", sep) = <<"">>.
RECURSIVE Split(_, _)
Split(s, sep) ==
  LET i == IndexOf(s, sep)
  IN IF i = 0 THEN <<s>>
     ELSE <<SubSeq(s, 1, i - 1)>> \o Split(SubSeq(s, i + 1, Len(s)), sep)

\* strings.SplitN(s, sep, 2) for a one-character sep.
SplitN2(s, sep) ==
  LET i == IndexOf(s, sep)
  IN IF i = 0 THEN <<s>>
     ELSE <<SubSeq(s, 1, i - 1), SubSeq(s, i + 1, Len(s))>>

\* strings.Fields: the maximal runs of non-space characters.
RECURSIVE Fields(_)
Fields(s) ==
  LET t == TrimSpace(s)
  IN IF t = "" THEN << >>
     ELSE LET sp == {i \in 1..Len(t) : IsSpace(Char(t, i))}
          IN IF sp = {} THEN <<t>>
             ELSE LET i == CHOOSE k \in sp : \A j \in sp : k <= j
                  IN <<SubSeq(t, 1, i - 1)>> \o Fields(SubSeq(t, i + 1, Len(t)))

\* The inverse of Split, used to build the text of a manifest from its lines.
RECURSIVE Join(_, _)
Join(lines, sep) ==
  IF Len(lines) = 0 THEN ""
  ELSE IF Len(lines) = 1 THEN lines[1]
  ELSE lines[1] \o sep \o Join(Tail(lines), sep)

(***************************************************************************)
(* encoding/base64: StdEncoding.DecodeString.                              *)
(***************************************************************************)

B64Alphabet == "ABCDEFGHIJKLMNOPQRSTUVWXYZabcdefghijklmnopqrstuvwxyz0123456789+/"

\* The value of each character of the alphabet.
B64Table ==
  [c \in {Char(B64Alphabet, i) : i \in 1..Len(B64Alphabet)} |->
     (CHOOSE i \in 1..Len(B64Alphabet) : Char(B64Alphabet, i) = c) - 1]
  @@ << >>

IsB64(c) == c \in DOMAIN B64Table

B64Val(c) == B64Table[c]

\* The decoder skips carriage returns and line feeds.
StripNewlines(s) == Join(Split(Join(Split(s, "\n"), ""), "\r"), "")

\* One group of four characters; padding is legal in the last group only.
DecodeQuad(q, last) ==
  LET c1 == Char(q, 1)
      c2 == Char(q, 2)
      c3 == Char(q, 3)
      c4 == Char(q, 4)
      b1 == Chr(B64Val(c1) * 4 + (B64Val(c2) \div 16))
      b2 == Chr((B64Val(c2) % 16) * 16 + (B64Val(c3) \div 4))
      b3 == Chr((B64Val(c3) % 4) * 64 + B64Val(c4))
  IN IF ~(IsB64(c1) /\ IsB64(c2)) THEN [err |-> TRUE, bytes |-> ""]
     ELSE IF last /\ c3 = "=" /\ c4 = "=" THEN [err |-> FALSE, bytes |-> b1]
     ELSE IF ~IsB64(c3) THEN [err |-> TRUE, bytes |-> ""]
     ELSE IF last /\ c4 = "=" THEN [err |-> FALSE, bytes |-> b1 \o b2]
     ELSE IF ~IsB64(c4) THEN [err |-> TRUE, bytes |-> ""]
     ELSE [err |-> FALSE, bytes |-> b1 \o b2 \o b3]

RECURSIVE DecodeQuads(_)
DecodeQuads(s) ==
  IF Len(s) = 0 THEN [err |-> FALSE, bytes |-> ""]
  ELSE IF Len(s) < 4 THEN [err |-> TRUE, bytes |-> ""]
  ELSE LET q == DecodeQuad(SubSeq(s, 1, 4), Len(s) = 4)
       IN IF q.err THEN q
          ELSE LET r == DecodeQuads(SubSeq(s, 5, Len(s)))
               IN IF r.err THEN r ELSE [err |-> FALSE, bytes |-> q.bytes \o r.bytes]

DecodeString(content) == DecodeQuads(StripNewlines(content))

(***************************************************************************)
(* The manifest detector.                                                  *)
(***************************************************************************)

\* depFilePatterns: base name -> ecosystem.
depFilePatterns ==
  ("package.json" :> "npm") @@ ("go.mod" :> "go") @@ ("requirements.txt" :> "python")
  @@ ("Pipfile" :> "python") @@ ("pyproject.toml" :> "python")
  @@ ("Cargo.toml" :> "rust") @@ ("Gemfile" :> "ruby")

lockFiles ==
  << "package-lock.json", "yarn.lock", "pnpm-lock.yaml", "go.sum",
     "Pipfile.lock", "poetry.lock", "Cargo.lock", "Gemfile.lock" >>

Entry(path, type) == [Path |-> path, Type |-> type]

\* The tree entries a listing is drawn from: every manifest name and every
\* lock-file name, nested paths, directories that carry a manifest or lock
\* name, and names that differ from a table name in case or by a suffix.
TreePool ==
  { Entry("package.json", "blob"), Entry("svc/go.mod", "blob"),
    Entry("requirements.txt", "blob"), Entry("Pipfile", "blob"),
    Entry("pyproject.toml", "blob"), Entry("crates/core/Cargo.toml", "blob"),
    Entry("Gemfile", "blob"),
    Entry("Gemfile", "tree"), Entry("cargo.toml", "blob"), Entry("go.mod.bak", "blob"),
    Entry("package.json/README", "blob"),
    Entry("package-lock.json", "blob"), Entry("web/yarn.lock", "blob"),
    Entry("pnpm-lock.yaml", "blob"), Entry("go.sum", "tree"),
    Entry("Pipfile.lock", "blob"), Entry("poetry.lock", "blob"),
    Entry("Cargo.lock", "blob"), Entry("Gemfile.lock", "blob"),
    Entry("yarn.lock/notes", "blob"), Entry("Yarn.lock", "blob") }

\* parts := strings.Split(path, "/"); filename := parts[len(parts)-1]
Filename(path) == LET parts == Split(path, "/") IN parts[Len(parts)]

\* Filename on the paths of the model.
FilenameOf == [path \in {e.Path : e \in TreePool} |-> Filename(path)]

\* findDependencyFiles without the test of the entry type.
RECURSIVE findDependencyFilesAnyType(_)
findDependencyFilesAnyType(tree) ==
  IF Len(tree) = 0 THEN << >>
  ELSE LET entry == Head(tree)
           rest == findDependencyFilesAnyType(Tail(tree))
           filename == FilenameOf[entry.Path]
       IN IF filename \in DOMAIN depFilePatterns
          THEN <<[path |-> entry.Path, fileType |-> depFilePatterns[filename]]>> \o rest
          ELSE rest

RECURSIVE findDependencyFiles(_)
findDependencyFiles(tree) ==
  IF Len(tree) = 0 THEN << >>
  ELSE LET entry == Head(tree)
           rest == findDependencyFiles(Tail(tree))
           filename == FilenameOf[entry.Path]
       IN IF entry.Type # "blob" THEN rest
          ELSE IF filename \in DOMAIN depFilePatterns
          THEN <<[path |-> entry.Path, fileType |-> depFilePatterns[filename]]>> \o rest
          ELSE rest

\* hasLockFile comparing the whole path, not its final segment.
hasLockFileWholePath(tree) ==
  \E i \in 1..Len(tree) : \E k \in 1..Len(lockFiles) : tree[i].Path = lockFiles[k]

RECURSIVE hasLockFile(_)
hasLockFile(tree) ==
  IF Len(tree) = 0 THEN FALSE
  ELSE LET filename == FilenameOf[Head(tree).Path]
       IN IF \E k \in 1..Len(lockFiles) : filename = lockFiles[k] THEN TRUE
          ELSE hasLockFile(Tail(tree))

contains(slice, item) == \E i \in 1..Len(slice) : slice[i] = item

(***************************************************************************)
(* The format parsers.  Each line-oriented parser is a fold of its loop    *)
(* body over strings.Split(content, "\n").                                 *)
(***************************************************************************)

Dependency(name, version, type) == [Name |-> name, Version |-> version, Type |-> type]

cleanVersion(v) == TrimSpace(v)

\* ---- npm ----------------------------------------------------------------

\* The package.json texts of the model.
NpmPlain == "{\"dependencies\":{\"a\":\"^1.0\"},\"devDependencies\":{\"b\":\"~2.0\"}}"
NpmShared == "{\"dependencies\":{\"b\":\"^1.0\",\"a\":\"1\"},\"devDependencies\":{\"a\":\" ~2.0 \"}}"
NpmEmptyKey == "{\"dependencies\":{\"\":\"1.0\"}}"
NpmNoDeps == "{\"name\":\"x\"}"

NoEntries == [n \in {} |-> ""]

\* json.Unmarshal(content, &pkg) on the texts of the model: the three maps of
\* a package.json text, an error for every text that is not JSON.
Unmarshal(content) ==
  CASE content = NpmPlain ->
         [err |-> FALSE, Dependencies |-> ("a" :> "^1.0"),
          DevDependencies |-> ("b" :> "~2.0"), PeerDeps |-> NoEntries]
    [] content = NpmShared ->
         [err |-> FALSE, Dependencies |-> ("b" :> "^1.0") @@ ("a" :> "1"),
          DevDependencies |-> ("a" :> " ~2.0 "), PeerDeps |-> NoEntries]
    [] content = NpmEmptyKey ->
         [err |-> FALSE, Dependencies |-> ("" :> "1.0"),
          DevDependencies |-> NoEntries, PeerDeps |-> NoEntries]
    [] content = NpmNoDeps ->
         [err |-> FALSE, Dependencies |-> NoEntries,
          DevDependencies |-> NoEntries, PeerDeps |-> NoEntries]
    [] OTHER ->
         [err |-> TRUE, Dependencies |-> NoEntries,
          DevDependencies |-> NoEntries, PeerDeps |-> NoEntries]

Orderings(S) ==
  {f \in [1..Cardinality(S) -> S] : \A i, j \in 1..Cardinality(S) : f[i] = f[j] => i = j}

\* for name, version := range m { deps = append(deps, ...) }: Go iterates a map
\* in an unspecified order, so every order of the keys is an outcome.
RangeAppend(m, type) ==
  {[i \in 1..Cardinality(DOMAIN m) |-> Dependency(order[i], cleanVersion(m[order[i]]), type)] :
     order \in Orderings(DOMAIN m)}

\* less of the sort.Slice call: deps[i].Name < deps[j].Name.
lessByName(x, y) == StrLess(x.Name, y.Name)

\* sort.Slice(deps, less): the result is a permutation of deps ordered by
\* less; sort.Slice is not stable, so elements that less does not order may
\* come out in either order.
SortSlice(deps) ==
  LET n == Len(deps)
      shuffled == {[i \in 1..n |-> deps[f[i]]] : f \in Orderings(1..n)}
  IN {p \in shuffled : \A i, j \in 1..n : i < j => ~lessByName(p[j], p[i])}

\* The possible results of parsePackageJSON(content).
parsePackageJSON(content) ==
  LET pkg == Unmarshal(content)
  IN IF pkg.err THEN {[deps |-> << >>, fileType |-> "npm"]}
     ELSE {[deps |-> sorted, fileType |-> "npm"] :
             sorted \in UNION {SortSlice(prod \o dev \o peer) :
                                 prod \in RangeAppend(pkg.Dependencies, "production"),
                                 dev \in RangeAppend(pkg.DevDependencies, "dev"),
                                 peer \in RangeAppend(pkg.PeerDeps, "peer")}}

\* ---- go.mod -------------------------------------------------------------

\* The loop body of parseGoMod without the test for the closing ")".
GoModLineNeverCloses(st, raw) ==
  LET line == TrimSpace(raw)
      parts == Fields(line)
  IN IF HasPrefix(line, "require (") THEN [st EXCEPT !.inRequire = TRUE]
     ELSE IF HasPrefix(line, "require ") /\ ~Contains(line, "(")
     THEN IF Len(parts) >= 3
          THEN [st EXCEPT !.deps = Append(@, Dependency(parts[2], parts[3], "production"))]
          ELSE st
     ELSE IF st.inRequire /\ line # "" /\ ~HasPrefix(line, "//")
     THEN IF Len(parts) >= 2
          THEN [st EXCEPT !.deps =
                  Append(@, Dependency(parts[1], parts[2],
                                       IF Contains(line, "// indirect")
                                       THEN "indirect" ELSE "production"))]
          ELSE st
     ELSE st

\* The body of the loop of parseGoMod on one line; st = [inRequire, deps].
GoModLine(st, raw) ==
  LET line == TrimSpace(raw)
      parts == Fields(line)
  IN IF HasPrefix(line, "require (") THEN [st EXCEPT !.inRequire = TRUE]
     ELSE IF line = ")" THEN [st EXCEPT !.inRequire = FALSE]
     ELSE IF HasPrefix(line, "require ") /\ ~Contains(line, "(")
     THEN IF Len(parts) >= 3
          THEN [st EXCEPT !.deps = Append(@, Dependency(parts[2], parts[3], "production"))]
          ELSE st
     ELSE IF st.inRequire /\ line # "" /\ ~HasPrefix(line, "//")
     THEN IF Len(parts) >= 2
          THEN [st EXCEPT !.deps =
                  Append(@, Dependency(parts[1], parts[2],
                                       IF Contains(line, "// indirect")
                                       THEN "indirect" ELSE "production"))]
          ELSE st
     ELSE st

RECURSIVE GoModLines(_, _)
GoModLines(st, lines) ==
  IF Len(lines) = 0 THEN st ELSE GoModLines(GoModLine(st, Head(lines)), Tail(lines))

GoModStart == [inRequire |-> FALSE, deps |-> << >>]

parseGoMod(content) ==
  [deps |-> GoModLines(GoModStart, Split(content, "\n")).deps, fileType |-> "go"]

\* ---- requirements.txt ---------------------------------------------------

NameAlphabet == "abcdefghijklmnopqrstuvwxyzABCDEFGHIJKLMNOPQRSTUVWXYZ0123456789_-"
NameChars == {Char(NameAlphabet, i) : i \in 1..Len(NameAlphabet)}
SpaceChars == {" ", "\t", "\n", "\r"}
OperatorChars == {"=", "<", ">", "!", "~"}

\* ^([a-zA-Z0-9_-]+)\s*([=<>!~]+.*)$ : the submatches, << >> when no match.
versionPattern(line) ==
  LET n == LeadingRun(line, NameChars)
      after == SubSeq(line, n + 1, Len(line))
      rest == SubSeq(after, LeadingRun(after, SpaceChars) + 1, Len(after))
  IN IF n >= 1 /\ Len(rest) >= 1 /\ Char(rest, 1) \in OperatorChars /\ ~Contains(rest, "\n")
     THEN <<line, SubSeq(line, 1, n), rest>>
     ELSE << >>

\* ^([a-zA-Z0-9_-]+)\s*$ : the submatches, << >> when no match.
simplePattern(line) ==
  LET n == LeadingRun(line, NameChars)
      after == SubSeq(line, n + 1, Len(line))
  IN IF n >= 1 /\ LeadingRun(after, SpaceChars) = Len(after)
     THEN <<line, SubSeq(line, 1, n)>>
     ELSE << >>

\* The body of the loop of parseRequirementsTxt on one line.
RequirementsLine(deps, raw) ==
  LET line == TrimSpace(raw)
  IN IF line = "" \/ HasPrefix(line, "#") \/ HasPrefix(line, "-") THEN deps
     ELSE IF Len(versionPattern(line)) >= 3
     THEN Append(deps, Dependency(versionPattern(line)[2],
                                  TrimSpace(versionPattern(line)[3]), "production"))
     ELSE IF Len(simplePattern(line)) >= 2
     THEN Append(deps, Dependency(simplePattern(line)[2], "*", "production"))
     ELSE deps

RECURSIVE RequirementsLines(_, _)
RequirementsLines(deps, lines) ==
  IF Len(lines) = 0 THEN deps
  ELSE RequirementsLines(RequirementsLine(deps, Head(lines)), Tail(lines))

parseRequirementsTxt(content) ==
  [deps |-> RequirementsLines(<< >>, Split(content, "\n")), fileType |-> "python"]

\* ---- Cargo.toml ----------------------------------------------------------

QuoteChars == {"\"", "'"}

\* The loop body of parseCargoToml where [dev-dependencies] does not leave
\* the [dependencies] section.
CargoLineKeepsDeps(st, raw) ==
  LET line == TrimSpace(raw)
      parts == SplitN2(line, "=")
  IN IF line = "[dependencies]"
     THEN [st EXCEPT !.inDeps = TRUE, !.inDevDeps = FALSE]
     ELSE IF line = "[dev-dependencies]"
     THEN [st EXCEPT !.inDevDeps = TRUE]
     ELSE IF HasPrefix(line, "[")
     THEN [st EXCEPT !.inDeps = FALSE, !.inDevDeps = FALSE]
     ELSE IF (st.inDeps \/ st.inDevDeps) /\ Contains(line, "=")
     THEN IF Len(parts) = 2
          THEN [st EXCEPT !.deps =
                  Append(@, Dependency(TrimSpace(parts[1]),
                                       TrimSet(TrimSpace(parts[2]), {"\"", "'"}),
                                       IF st.inDevDeps THEN "dev" ELSE "production"))]
          ELSE st
     ELSE st

\* The body of the loop of parseCargoToml on one line;
\* st = [inDeps, inDevDeps, deps].
CargoLine(st, raw) ==
  LET line == TrimSpace(raw)
      parts == SplitN2(line, "=")
  IN IF line = "[dependencies]"
     THEN [st EXCEPT !.inDeps = TRUE, !.inDevDeps = FALSE]
     ELSE IF line = "[dev-dependencies]"
     THEN [st EXCEPT !.inDeps = FALSE, !.inDevDeps = TRUE]
     ELSE IF HasPrefix(line, "[")
     THEN [st EXCEPT !.inDeps = FALSE, !.inDevDeps = FALSE]
     ELSE IF (st.inDeps \/ st.inDevDeps) /\ Contains(line, "=")
     THEN IF Len(parts) = 2
          THEN [st EXCEPT !.deps =
                  Append(@, Dependency(TrimSpace(parts[1]),
                                       TrimSet(TrimSpace(parts[2]), QuoteChars),
                                       IF st.inDevDeps THEN "dev" ELSE "production"))]
          ELSE st
     ELSE st

RECURSIVE CargoLines(_, _)
CargoLines(st, lines) ==
  IF Len(lines) = 0 THEN st ELSE CargoLines(CargoLine(st, Head(lines)), Tail(lines))

CargoStart == [inDeps |-> FALSE, inDevDeps |-> FALSE, deps |-> << >>]

parseCargoToml(content) ==
  [deps |-> CargoLines(CargoStart, Split(content, "\n")).deps, fileType |-> "rust"]

\* ---- Gemfile -------------------------------------------------------------

\* ['"]([^'"]+)['"] at the start of s: [ok, text, width].
QuotedAt(s) ==
  LET n == LeadingRunExcept(SubSeq(s, 2, Len(s)), QuoteChars)
  IN IF Len(s) >= 3 /\ Char(s, 1) \in QuoteChars /\ n >= 1 /\ n + 2 <= Len(s)
     THEN [ok |-> TRUE, text |-> SubSeq(s, 2, n + 1), width |-> n + 2]
     ELSE [ok |-> FALSE, text |-> "", width |-> 0]

\* (?:\s*,\s*['"]([^'"]+)['"])? at the start of s: the capture, "" when the
\* group takes no part in the match.
OptionalVersion(s) ==
  LET a == SubSeq(s, LeadingRun(s, SpaceChars) + 1, Len(s))
      b == SubSeq(a, 2, Len(a))
      c == SubSeq(b, LeadingRun(b, SpaceChars) + 1, Len(b))
  IN IF Len(a) >= 1 /\ Char(a, 1) = "," /\ QuotedAt(c).ok THEN QuotedAt(c).text ELSE ""

\* gem\s+['"]([^'"]+)['"](?:...)? matched at position i of line.
GemMatchAt(line, i) ==
  LET after == SubSeq(line, i + 3, Len(line))
      w == LeadingRun(after, SpaceChars)
      q == SubSeq(after, w + 1, Len(after))
  IN IF i + 2 <= Len(line) /\ SubSeq(line, i, i + 2) = "gem" /\ w >= 1 /\ QuotedAt(q).ok
     THEN <<"gem", QuotedAt(q).text,
            OptionalVersion(SubSeq(q, QuotedAt(q).width + 1, Len(q)))>>
     ELSE << >>

\* gemPattern.FindStringSubmatch(line): the leftmost match, << >> when none.
gemPattern(line) ==
  LET at == {i \in 1..Len(line) : Len(GemMatchAt(line, i)) > 0}
  IN IF at = {} THEN << >>
     ELSE GemMatchAt(line, CHOOSE i \in at : \A j \in at : i <= j)

\* The body of the loop of parseGemfile on one line.
GemfileLine(deps, raw) ==
  LET line == TrimSpace(raw)
      matches == gemPattern(line)
  IN IF HasPrefix(line, "#") \/ line = "" THEN deps
     ELSE IF Len(matches) >= 2
     THEN Append(deps, Dependency(matches[2],
                                  IF Len(matches) >= 3 /\ matches[3] # ""
                                  THEN matches[3] ELSE "*",
                                  "production"))
     ELSE deps

RECURSIVE GemfileLines(_, _)
GemfileLines(deps, lines) ==
  IF Len(lines) = 0 THEN deps
  ELSE GemfileLines(GemfileLine(deps, Head(lines)), Tail(lines))

parseGemfile(content) ==
  [deps |-> GemfileLines(<< >>, Split(content, "\n")), fileType |-> "ruby"]

(***************************************************************************)
(* The aggregator AnalyzeDependencies and its collaborator.                *)
(***************************************************************************)

\* The longest tree listing of the model.
MaxTree == 2

\* The listings of at most MaxTree entries; a listing names a path once.
TreeListings ==
  {t \in UNION {[1..n -> TreePool] : n \in 0..MaxTree} :
     \A i, j \in DOMAIN t : t[i].Path = t[j].Path => i = j}

\* What the repository of the model holds at each manifest path, base64
\* encoded in lines of 60 characters as the hosting API returns it.
SharedBase64 ==
  "eyJkZXBlbmRlbmNpZXMiOnsiYiI6Il4xLjAiLCJhIjoiMSJ9LCJkZXZEZXBl\nbmRlbmNpZXMiOnsiYSI6IiB+Mi4wICJ9fQ=="
GoModBase64 ==
  "bW9kdWxlIG0KCnJlcXVpcmUgKAoJZ2l0aHViLmNvbS94L3kgdjEuMi4zIC8v\nIGluZGlyZWN0CglnaXRodWIuY29tL3AvcSB2MC4xLjAKKQo="
ReqBase64 == "Zmxhc2s9PTIuMAojIGNvbW1lbnQKcmVxdWVzdHMK"
PipfileBase64 == "W3BhY2thZ2VzXQpmbGFzayA9ICIqIgo="
PyprojectBase64 == "W3Rvb2wuYmxhY2tdCg=="
CargoBase64 ==
  "W2RlcGVuZGVuY2llc10Kc2VyZGUgPSAiMS4wIgpbZGV2LWRlcGVuZGVuY2ll\nc10KbW9ja2FsbCA9ICIwLjExIgo="
GemfileBase64 == "Z2VtICJyYWlscyIsICI3LjAiCmdlbSAicHJ5Igo="
GarbageBase64 == "IyBub3RoaW5nIGhlcmU="
BrokenBase64 == "bm90IGJhc2U2NA=!"

Stored(path) ==
  LET name == FilenameOf[path]
  IN CASE name = "package.json" -> SharedBase64
       [] name = "go.mod" -> GoModBase64
       [] name = "requirements.txt" -> ReqBase64
       [] name = "Pipfile" -> PipfileBase64
       [] name = "pyproject.toml" -> PyprojectBase64
       [] name = "Cargo.toml" -> CargoBase64
       [] name = "Gemfile" -> GemfileBase64
       [] OTHER -> GarbageBase64

\* client.GetFileContent(owner, repo, path): an error, or a base64 text:
\* the stored manifest, a file that is no manifest, or a corrupt encoding.
GetFileContent(path) ==
  { [err |-> TRUE, content |-> ""],
    [err |-> FALSE, content |-> Stored(path)],
    [err |-> FALSE, content |-> GarbageBase64],
    [err |-> FALSE, content |-> BrokenBase64] }

\* Every content a fetch of the model can return.
Contents == {r.content : r \in UNION {GetFileContent(e.Path) : e \in TreePool}}

\* DecodeString on the contents of the model.
DecodedContent == [c \in Contents |-> DecodeString(c)]

VARIABLES
  fileTree,     \* the tree listing AnalyzeDependencies is called with
  pc,           \* "start", "loop", "done": the position in AnalyzeDependencies
  depFiles,     \* depFiles
  idx,          \* the position of the range loop in depFiles, from 1
  analysis,     \* *analysis
  err,          \* the returned error: "none" until the return, then "nil"
  fetchCalls,   \* the paths GetFileContent was called with, in call order
  responses,    \* what GetFileContent returned to each call of the first run
  parsed,       \* what the parser returned for each candidate (NotParsed: skipped)
  run,          \* 1 in the first call of AnalyzeDependencies, 2 in a repeated call
  firstReport,  \* the report of the first call, kept when the call is repeated
  text,         \* parser machines: the manifest text
  lines,        \* parser machines: strings.Split(text, "\n")
  lineNo,       \* parser machines: the line the loop is at, from 1
  goSt,         \* parseGoMod: [inRequire, deps]
  cargoSt,      \* parseCargoToml: [inDeps, inDevDeps, deps]
  emittedAt     \* parser machines: for each dependency, the line that emitted it

vars ==
  << fileTree, pc, depFiles, idx, analysis, err, fetchCalls, responses, parsed,
     run, firstReport, text, lines, lineNo, goSt, cargoSt, emittedAt >>

aggVars ==
  << fileTree, pc, depFiles, idx, analysis, err, fetchCalls, responses, parsed,
     run, firstReport >>

parserVars == << text, lines, lineNo, goSt, cargoSt, emittedAt >>

NewAnalysis == [Files |-> << >>, TotalDeps |-> 0, Languages |-> << >>, HasLockFile |-> FALSE]

NotParsed == [deps |-> << >>, fileType |-> ""]

\* switch df.fileType { ... }: the possible (deps, fileType) of the parser.
Dispatch(fileType, decoded) ==
  CASE fileType = "npm" -> parsePackageJSON(decoded)
    [] fileType = "go" -> {parseGoMod(decoded)}
    [] fileType = "python" -> {parseRequirementsTxt(decoded)}
    [] fileType = "rust" -> {parseCargoToml(decoded)}
    [] fileType = "ruby" -> {parseGemfile(decoded)}
    [] OTHER -> {NotParsed}

\* Retain without the test len(deps) > 0.
RetainAlways(an, df, deps, fileType) ==
  [an EXCEPT
     !.Files = Append(@, [Filename |-> df.path, FileType |-> fileType,
                          Dependencies |-> deps, TotalCount |-> Len(deps)]),
     !.TotalDeps = @ + Len(deps),
     !.Languages = IF ~contains(@, fileType) THEN Append(@, fileType) ELSE @]

\* Retain with the language tracked outside the test len(deps) > 0.
RetainTracksFirst(an, df, deps, fileType) ==
  LET tracked == [an EXCEPT !.Languages =
                    IF ~contains(@, fileType) THEN Append(@, fileType) ELSE @]
  IN IF Len(deps) > 0
     THEN [tracked EXCEPT
             !.Files = Append(@, [Filename |-> df.path, FileType |-> fileType,
                                  Dependencies |-> deps, TotalCount |-> Len(deps)]),
             !.TotalDeps = @ + Len(deps)]
     ELSE tracked

\* if len(deps) > 0 { ... }: the file is kept, counted and its language tracked.
Retain(an, df, deps, fileType) ==
  IF Len(deps) > 0
  THEN [an EXCEPT
          !.Files = Append(@, [Filename |-> df.path, FileType |-> fileType,
                               Dependencies |-> deps, TotalCount |-> Len(deps)]),
          !.TotalDeps = @ + Len(deps),
          !.Languages = IF ~contains(@, fileType) THEN Append(@, fileType) ELSE @]
  ELSE an

\* content, err := client.GetFileContent(...); decoded, err := DecodeString(content):
\* the decoding of response r, an error when either step fails.
Decoded(r) == IF r.err THEN [err |-> TRUE, bytes |-> ""] ELSE DecodedContent[r.content]

\* The parsers' results for each ecosystem and content.
Parsed ==
  [fileType \in {depFilePatterns[n] : n \in DOMAIN depFilePatterns}, c \in Contents |->
     IF DecodedContent[c].err THEN {NotParsed}
     ELSE Dispatch(fileType, DecodedContent[c].bytes)]

\* The loop body where an error gives up what was collected so far instead
\* of going on to the next candidate.
LoopBodyGivesUp(an, df, dec, p) ==
  IF dec.err THEN [an EXCEPT !.Files = << >>, !.TotalDeps = 0, !.Languages = << >>]
  ELSE Retain(an, df, p.deps, p.fileType)

\* The body of the range loop for candidate df, decoding dec of the response
\* and parser result p: an error leaves by continue.
LoopBody(an, df, dec, p) ==
  IF dec.err THEN an ELSE Retain(an, df, p.deps, p.fileType)

AggInit ==
  /\ fileTree \in TreeListings
  /\ pc = "start"
  /\ depFiles = << >>
  /\ idx = 1
  /\ analysis = NewAnalysis
  /\ err = "none"
  /\ fetchCalls = << >>
  /\ responses = << >>
  /\ parsed = << >>
  /\ run = 1
  /\ firstReport = NewAnalysis

ParserIdle ==
  /\ text = ""
  /\ lines = << >>
  /\ lineNo = 1
  /\ goSt = GoModStart
  /\ cargoSt = CargoStart
  /\ emittedAt = << >>

Init == AggInit /\ ParserIdle

\* analysis := &DependencyAnalysis{...}; depFiles := findDependencyFiles(fileTree)
Find ==
  /\ pc = "start"
  /\ analysis' = NewAnalysis
  /\ depFiles' = findDependencyFiles(fileTree)
  /\ idx' = 1
  /\ pc' = "loop"
  /\ fetchCalls' = << >>
  /\ parsed' = << >>
  /\ UNCHANGED << fileTree, err, responses, run, firstReport >>
  /\ UNCHANGED parserVars

\* One iteration of the range loop: fetch, decode, parse, retain.  A repeated
\* call sees the same repository, so it gets the responses of the first call.
Manifest ==
  /\ pc = "loop"
  /\ idx <= Len(depFiles)
  /\ LET df == depFiles[idx]
     IN \E r \in (IF run = 1 THEN GetFileContent(df.path) ELSE {responses[idx]}) :
          \E p \in (IF Decoded(r).err THEN {NotParsed}
                    ELSE Parsed[df.fileType, r.content]) :
            /\ analysis' = LoopBody(analysis, df, Decoded(r), p)
            /\ fetchCalls' = Append(fetchCalls, df.path)
            /\ responses' = IF run = 1 THEN Append(responses, r) ELSE responses
            /\ parsed' = Append(parsed, p)
  /\ idx' = idx + 1
  /\ UNCHANGED << fileTree, pc, depFiles, err, run, firstReport >>
  /\ UNCHANGED parserVars

\* analysis.HasLockFile = hasLockFile(fileTree); return analysis, nil
Finish ==
  /\ pc = "loop"
  /\ idx > Len(depFiles)
  /\ analysis' = [analysis EXCEPT !.HasLockFile = hasLockFile(fileTree)]
  /\ err' = "nil"
  /\ pc' = "done"
  /\ UNCHANGED << fileTree, depFiles, idx, fetchCalls, responses, parsed, run, firstReport >>
  /\ UNCHANGED parserVars

\* The caller analyses the unchanged repository a second time.
Rerun ==
  /\ pc = "done"
  /\ run = 1
  /\ firstReport' = analysis
  /\ run' = 2
  /\ pc' = "start"
  /\ err' = "none"
  /\ UNCHANGED << fileTree, depFiles, idx, analysis, fetchCalls, responses, parsed >>
  /\ UNCHANGED parserVars

Next == Find \/ Manifest \/ Finish

Spec == Init /\ [][Next]_vars

NextRerun == Find \/ Manifest \/ Finish \/ Rerun

SpecRerun == Init /\ [][NextRerun]_vars

(***************************************************************************)
(* The two parsers with loop state, one line per step.                     *)
(***************************************************************************)

\* The most lines of a manifest text of the parser machines.
MaxLines == 3

AggIdle ==
  /\ fileTree = << >>
  /\ pc = "idle"
  /\ depFiles = << >>
  /\ idx = 1
  /\ analysis = NewAnalysis
  /\ err = "none"
  /\ fetchCalls = << >>
  /\ responses = << >>
  /\ parsed = << >>
  /\ run = 1
  /\ firstReport = NewAnalysis

\* The lines a go.mod text of the model is made of.
GoModPool ==
  { "require (", ")", "\tgithub.com/x/y v1.2.3 // indirect", "\tgithub.com/p/q v0.1.0",
    "require a.io/b v1.0.0 // indirect", "require c.io/d v2.0.0", "\t// pinned v1",
    "", "replace (", "retract" }

\* The lines a Cargo.toml text of the model is made of.
CargoPool ==
  { "[dependencies]", "  [dev-dependencies]", "[package]", "[dependencies.tokio]",
    "serde = \"1.0\"", "mockall = '0.11'", "edition", "", " = \"2\"" }

TextsOf(pool) == {Join(ls, "\n") : ls \in UNION {[1..n -> pool] : n \in 0..MaxLines}}

ParserStart(pool) ==
  /\ text \in TextsOf(pool)
  /\ lines = Split(text, "\n")
  /\ lineNo = 1
  /\ goSt = GoModStart
  /\ cargoSt = CargoStart
  /\ emittedAt = << >>

\* One iteration of the loop of parseGoMod.
GoModStep ==
  /\ lineNo <= Len(lines)
  /\ goSt' = GoModLine(goSt, lines[lineNo])
  /\ emittedAt' = IF Len(goSt'.deps) > Len(goSt.deps) THEN Append(emittedAt, lineNo)
                  ELSE emittedAt
  /\ lineNo' = lineNo + 1
  /\ UNCHANGED << text, lines, cargoSt >>
  /\ UNCHANGED aggVars

\* One iteration of the loop of parseCargoToml.
CargoStep ==
  /\ lineNo <= Len(lines)
  /\ cargoSt' = CargoLine(cargoSt, lines[lineNo])
  /\ emittedAt' = IF Len(cargoSt'.deps) > Len(cargoSt.deps) THEN Append(emittedAt, lineNo)
                  ELSE emittedAt
  /\ lineNo' = lineNo + 1
  /\ UNCHANGED << text, lines, goSt >>
  /\ UNCHANGED aggVars

InitGoMod == AggIdle /\ ParserStart(GoModPool)

SpecGoMod == InitGoMod /\ [][GoModStep]_vars

InitCargo == AggIdle /\ ParserStart(CargoPool)

SpecCargo == InitCargo /\ [][CargoStep]_vars

(***************************************************************************)
(* Properties.                                                             *)
(***************************************************************************)

\* path has name as its final segment: it is name, or ends with "/" and name.
LastSegmentIs(path, name) ==
  \/ path = name
  \/ /\ Len(path) > Len(name)
     /\ SubSeq(path, Len(path) - Len(name), Len(path)) = "/" \o name

RECURSIVE SumOfCounts(_)
SumOfCounts(files) ==
  IF Len(files) = 0 THEN 0 ELSE Head(files).TotalCount + SumOfCounts(Tail(files))

\* C1: after AnalyzeDependencies returns, every file of Files has TotalCount
\* equal to the length of its Dependencies, which is at least 1, and TotalDeps
\* is the sum of TotalCount over the files of Files.
C1_CountsAndTotal ==
  pc = "done" =>
    /\ \A i \in 1..Len(analysis.Files) :
         /\ analysis.Files[i].TotalCount = Len(analysis.Files[i].Dependencies)
         /\ Len(analysis.Files[i].Dependencies) >= 1
    /\ analysis.TotalDeps = SumOfCounts(analysis.Files)

\* C1 witness: a run returned with one manifest retained and another one,
\* fetched and decoded, dropped because its parse found no dependency.
C1_Witness ==
  /\ pc = "done"
  /\ Len(depFiles) = 2
  /\ Len(analysis.Files) = 1
  /\ analysis.TotalDeps >= 2
  /\ \E i \in 1..2 : ~Decoded(responses[i]).err /\ parsed[i].deps = << >>

\* Candidate i was fetched and decoded and its parse found a dependency.
Kept(i) == ~Decoded(responses[i]).err /\ Len(parsed[i].deps) >= 1

\* The files of the candidates from i on that are kept, in candidate order.
RECURSIVE KeptFiles(_)
KeptFiles(i) ==
  IF i > Len(depFiles) THEN << >>
  ELSE (IF Kept(i)
        THEN << [Filename |-> depFiles[i].path, FileType |-> parsed[i].fileType,
                 Dependencies |-> parsed[i].deps, TotalCount |-> Len(parsed[i].deps)] >>
        ELSE << >>) \o KeptFiles(i + 1)

\* C2: whatever fetches and decodes fail, the run returns a report and a nil
\* error, every candidate is requested exactly once, in order, and Files is
\* exactly the candidates, in order, that were fetched, decoded and parsed to
\* at least one dependency, each with what its own parse returned.
C2_FailuresOnlySkip ==
  pc = "done" =>
    /\ err = "nil"
    /\ fetchCalls = [i \in 1..Len(depFiles) |-> depFiles[i].path]
    /\ Len(responses) = Len(depFiles)
    /\ analysis.Files = KeptFiles(1)

\* C2 witness: the fetch of the first candidate failed, or its content did not
\* decode, and the second candidate is in Files.
C2_Witness ==
  /\ pc = "done"
  /\ Len(depFiles) = 2
  /\ Decoded(responses[1]).err
  /\ Len(analysis.Files) = 1
  /\ analysis.Files[1].Filename = depFiles[2].path

KnownLockNames ==
  { "package-lock.json", "yarn.lock", "pnpm-lock.yaml", "go.sum",
    "Pipfile.lock", "poetry.lock", "Cargo.lock", "Gemfile.lock" }

\* C4: the returned HasLockFile is true exactly when some entry of the tree
\* has one of the eight lock-file names as its final path segment, whatever
\* happened to the manifests.
C4_HasLockFile ==
  pc = "done" =>
    (analysis.HasLockFile <=>
       \E i \in 1..Len(fileTree) : \E name \in KnownLockNames :
         LastSegmentIs(fileTree[i].Path, name))

\* C4 witness: a run returned with a lock file seen below a directory and no
\* manifest retained although one was found.
C4_Witness ==
  /\ pc = "done"
  /\ analysis.HasLockFile
  /\ \E i \in 1..Len(fileTree) : fileTree[i].Path = "web/yarn.lock"
  /\ Len(depFiles) = 1
  /\ analysis.Files = << >>

ManifestTable ==
  { <<"package.json", "npm">>, <<"go.mod", "go">>, <<"requirements.txt", "python">>,
    <<"Pipfile", "python">>, <<"pyproject.toml", "python">>, <<"Cargo.toml", "rust">>,
    <<"Gemfile", "ruby">> }

\* The ecosystems the table gives for the final segment of an entry's path.
TagsOf(entry) == {m[2] : m \in {n \in ManifestTable : LastSegmentIs(entry.Path, n[1])}}

ManifestPositions ==
  {i \in 1..Len(fileTree) : fileTree[i].Type = "blob" /\ TagsOf(fileTree[i]) # {}}

\* The k-th of the positions pos, counted from 1.
NthOf(pos, k) ==
  CHOOSE i \in pos : Cardinality({j \in pos : j <= i}) = k

\* C5: findDependencyFiles returns exactly the blob entries whose final path
\* segment is one of the seven manifest names, in tree order, each once and
\* each with the ecosystem of its name.
C5_FindDependencyFiles ==
  pc \in {"loop", "done"} =>
    LET pos == ManifestPositions
    IN /\ Len(depFiles) = Cardinality(pos)
       /\ \A k \in 1..Len(depFiles) :
            LET entry == fileTree[NthOf(pos, k)]
            IN /\ depFiles[k].path = entry.Path
               /\ TagsOf(entry) = {depFiles[k].fileType}

\* C5 witness: a listing of a manifest and of an entry that only resembles
\* one (a directory, another case, a longer name) gave the manifest alone.
C5_Witness ==
  /\ pc = "loop"
  /\ Len(fileTree) = 2
  /\ Len(depFiles) = 1
  /\ fileTree[1] \in { Entry("Gemfile", "tree"), Entry("cargo.toml", "blob"),
                       Entry("go.mod.bak", "blob"), Entry("package.json/README", "blob") }
  /\ depFiles[1].path = fileTree[2].Path

\* The position in Files of the first file with ecosystem tag.
FirstFileOf(tag) ==
  CHOOSE k \in 1..Len(analysis.Files) :
    /\ analysis.Files[k].FileType = tag
    /\ \A j \in 1..(k - 1) : analysis.Files[j].FileType # tag

\* C6: the returned Languages has no duplicate, holds exactly the ecosystems
\* of the files of Files, and lists them in the order of their first file.
C6_Languages ==
  pc = "done" =>
    LET langs == analysis.Languages
    IN /\ \A i, j \in 1..Len(langs) : langs[i] = langs[j] => i = j
       /\ {langs[i] : i \in 1..Len(langs)} =
            {analysis.Files[k].FileType : k \in 1..Len(analysis.Files)}
       /\ \A i, j \in 1..Len(langs) : i < j => FirstFileOf(langs[i]) < FirstFileOf(langs[j])

\* C6 witness: two manifests of one ecosystem were retained and the ecosystem
\* is listed once.
C6_Witness ==
  /\ pc = "done"
  /\ Len(analysis.Files) = 2
  /\ Len(analysis.Languages) = 1

\* C6 second witness: manifests of two ecosystems, listed in file order.
C6_WitnessOrder ==
  /\ pc = "done"
  /\ Len(analysis.Files) = 2
  /\ analysis.Languages = <<"ruby", "npm">>

\* ---- go.mod --------------------------------------------------------------

Trimmed(k) == TrimSpace(lines[k])

\* Line k is a single-line declaration: require <module> <version>, no "(".
SingleRequire(k) == HasPrefix(Trimmed(k), "require ") /\ ~Contains(Trimmed(k), "(")

Opener(k) == HasPrefix(Trimmed(k), "require (")

Closer(k) == Trimmed(k) = ")"

\* Line k lies strictly between an opener and the next closer.
InsideRequireBlock(k) ==
  \E j \in 1..(k - 1) : Opener(j) /\ \A m \in (j + 1)..(k - 1) : ~Closer(m)

\* C7: every dependency of the go.mod parser that comes from a line holding
\* the marker "// indirect" has type indirect, every other one production.
C7_IndirectMarker ==
  \A i \in 1..Len(goSt.deps) :
    goSt.deps[i].Type =
      IF Contains(lines[emittedAt[i]], "// indirect") THEN "indirect" ELSE "production"

\* C8: every dependency a parser emits has a non-empty name.
C8_NameNotEmpty == \A i \in 1..Len(cargoSt.deps) : cargoSt.deps[i].Name # ""

\* C10: the go.mod parser emits one dependency per emitting line, and a line
\* emits only if it is a single-line require declaration, or a non-blank line
\* not starting with "//" strictly between an opener and the next closer;
\* opener and closer lines emit nothing.
C10_OnlyInRequireContext ==
  /\ Len(emittedAt) = Len(goSt.deps)
  /\ \A i \in 1..Len(emittedAt) :
       LET k == emittedAt[i]
       IN /\ k < lineNo
          /\ \A h \in 1..(i - 1) : emittedAt[h] < k
          /\ ~Opener(k)
          /\ ~Closer(k)
          /\ \/ SingleRequire(k)
             \/ /\ InsideRequireBlock(k)
                /\ Trimmed(k) # ""
                /\ ~HasPrefix(Trimmed(k), "//")

\* C10 witness: the text was read to its end; a requirement line before the
\* opener gave nothing and the same kind of line inside the block gave one.
C10_Witness ==
  /\ lineNo > Len(lines)
  /\ Len(lines) = 3
  /\ lines[1] = "\tgithub.com/p/q v0.1.0"
  /\ Opener(2)
  /\ emittedAt = <<3>>
  /\ goSt.deps[1].Name = "github.com/x/y"

\* ---- Cargo.toml -----------------------------------------------------------

Section(st) ==
  IF st.inDeps /\ st.inDevDeps THEN "both"
  ELSE IF st.inDeps THEN "in-deps"
  ELSE IF st.inDevDeps THEN "in-dev-deps"
  ELSE "none"

\* What one step of the Cargo parser may do on the line it reads.
CargoRule ==
  lineNo' = lineNo + 1 =>
    LET line == TrimSpace(lines[lineNo])
        header == HasPrefix(line, "[")
        before == cargoSt.deps
        after == cargoSt'.deps
    IN /\ Section(cargoSt') =
            IF line = "[dependencies]" THEN "in-deps"
            ELSE IF line = "[dev-dependencies]" THEN "in-dev-deps"
            ELSE IF header THEN "none"
            ELSE Section(cargoSt)
       /\ IF ~header /\ Contains(line, "=") /\ Section(cargoSt) # "none"
          THEN /\ Len(after) = Len(before) + 1
               /\ SubSeq(after, 1, Len(before)) = before
               /\ after[Len(after)].Type =
                    IF Section(cargoSt) = "in-dev-deps" THEN "dev" ELSE "production"
               /\ Section(cargoSt) = "in-deps" <=> after[Len(after)].Type = "production"
          ELSE after = before

\* C9: the section state of the Cargo parser is never both; each line moves
\* it as the headers say and no other line changes it; a dependency is
\* appended exactly for a non-header line holding "=" read inside a section,
\* typed by that section.
C9_SectionMachine == [](Section(cargoSt) # "both") /\ [][CargoRule]_vars

\* C9 witness: the parser went from [dependencies] to [dev-dependencies] and
\* emitted a dev dependency there.
C9_Witness ==
  /\ lineNo > Len(lines)
  /\ Len(lines) = 3
  /\ TrimSpace(lines[1]) = "[dependencies]"
  /\ TrimSpace(lines[2]) = "[dev-dependencies]"
  /\ Section(cargoSt) = "in-dev-deps"
  /\ Len(cargoSt.deps) = 1
  /\ cargoSt.deps[1].Type = "dev"

====
